---- MODULE Spec2Model ----
(***************************************************************************)
(* Campaign-event builders of emodpy_malaria.interventions.common and     *)
(* .spacespraying, and the campaign and sweep of examples/campaign_sweep.  *)
(*                                                                         *)
(* A campaign is the list of events handed to campaign.add.  Every builder *)
(* is one action: it checks its arguments, builds one event object and     *)
(* appends it, or raises ValueError and leaves the campaign alone.         *)
(*                                                                         *)
(* Python values are modelled as follows.                                  *)
(*   - every value that may be None, a list or an object is a record with  *)
(*     a class field: PyNone, List(<<...>>), PyInt(n), PyStr(s); for an    *)
(*     object built through the schema (schema_to_class) or by an emod_api *)
(*     constructor its class and the fields or keyword arguments the code  *)
(*     sets on it;                                                         *)
(*   - arguments that are always numbers, strings or booleans are plain    *)
(*     integers, strings and booleans; a fraction (a coverage) is written  *)
(*     in percent, so that demographic_coverage = 1.0 is 100.              *)
(***************************************************************************)
EXTENDS Integers, Sequences, FiniteSets, TLC

VARIABLES
    events,     \* the events of the campaign, in the order campaign.add got them
    log,        \* the calls made: function, arguments, outcome and returned value
    pending,    \* the call a caller is about to make, NoCall when there is none
    experiment, \* the experiment of the example: its platform and its simulations
    files,      \* the files written: their names and what was written
    library     \* what utils._convert_prs of the library does with restrictions

vars == <<events, log, pending, experiment, files, library>>

----------------------------------------------------------------------------
(* Python values *)

PyNone == [class |-> "NoneType"]

List(s) == [class |-> "list", v |-> s]

PyInt(n) == [class |-> "int", v |-> n]

PyStr(s) == [class |-> "str", v |-> s]

Dict(k, val) == [class |-> "dict", v |-> <<k, val>>]

\* an intervention object somebody else has configured
Intervention(name) == [class |-> name]

\* no call is waiting to be made
NoCall == [op |-> "none"]

\* no experiment has been built
NoExperiment ==
    [platform |-> "none", simulations |-> <<>>, created |-> 0, status |-> "none"]

\* the files after one of them is written anew
Written(fs, name, content) ==
    {f \in fs : f.name # name} \cup {[name |-> name, content |-> content]}

\* what a call that raised has returned
NoValue == [class |-> "no value"]

\* bool(x) of None, a list or an object: None and the empty list are false
Truthy(x) == x.class # "NoneType" /\ (x.class = "list" => Len(x.v) > 0)

\* isinstance(x, list)
IsList(x) == x.class = "list"

----------------------------------------------------------------------------
(* Bounds *)

\* calls made on one campaign
MaxCalls == 3

\* the most events a call into code that is not at hand is taken to add
MaxIrsEvents == 2

----------------------------------------------------------------------------
(* Interventions handed to the builders *)

IvA == Intervention("IvA")

IvB == Intervention("IvB")

NodeIvA == Intervention("NodeIvA")

NodeIvB == Intervention("NodeIvB")

IndividualInterventions ==
    {PyNone, List(<<>>), IvA, List(<<IvA>>), List(<<IvA, IvB>>)}

NodeInterventions ==
    {PyNone, List(<<>>), NodeIvA, List(<<NodeIvA>>), List(<<NodeIvA, NodeIvB>>)}

----------------------------------------------------------------------------
(* Helpers of both builders *)

\* a wrapper that puts a list into a list as well
AsInterventionListAlwaysWrap(x) == List(<<x>>)

\* Intervention_List: the argument when it is a list, else a list holding it
AsInterventionList(x) == IF IsList(x) THEN x ELSE List(<<x>>)

\* utils.do_nodes: the listed nodes, or all nodes for None and for the empty list
do_nodes(node_ids) ==
    IF Truthy(node_ids) /\ Len(node_ids.v) > 0
    THEN [class |-> "NodeSetNodeList", Node_List |-> node_ids]
    ELSE [class |-> "NodeSetAll"]

\* an add that puts the event at the front
campaign_add_first(camp, event) == <<event>> \o camp

\* campaign.add(event)
campaign_add(camp, event) == Append(camp, event)

\* a field the code never assigns keeps the value the schema gave it
SchemaDefault == List(<<>>)

----------------------------------------------------------------------------
(* _malaria_diagnostic *)

DiagnosticArgs ==
    [diagnostic_type : {"BLOOD_SMEAR_PARASITES", "TRUE_INFECTION_STATUS", "PCR_PARASITES"},
     measurement_sensitivity : {0, 1, 10},
     detection_threshold : {0, 1, 40}]

DiagnosticSeqArgs ==
    {a \in DiagnosticArgs : /\ a.diagnostic_type # "PCR_PARASITES"
                            /\ a.measurement_sensitivity \in {0, 10}
                            /\ a.detection_threshold = 0}

\* a check that lets one of the two parameters through
DiagnosticCheckBoth(a) ==
    IF /\ a.diagnostic_type = "TRUE_INFECTION_STATUS"
       /\ (a.measurement_sensitivity # 0 /\ a.detection_threshold # 0)
    THEN "ValueError"
    ELSE "ok"

\* TRUE_INFECTION_STATUS takes neither measurement_sensitivity nor detection_threshold
DiagnosticCheck(a) ==
    IF /\ a.diagnostic_type = "TRUE_INFECTION_STATUS"
       /\ (a.measurement_sensitivity # 0 \/ a.detection_threshold # 0)
    THEN "ValueError"
    ELSE "ok"

\* a builder that sets the two numeric fields the wrong way round
DiagnosticSwapped(a) ==
    IF a.diagnostic_type = "TRUE_INFECTION_STATUS"
    THEN [class |-> "StandardDiagnostic"]
    ELSE [class |-> "MalariaDiagnostic",
          Measurement_Sensitivity |-> a.detection_threshold,
          Detection_Threshold |-> a.measurement_sensitivity,
          Diagnostic_Type |-> a.diagnostic_type]

\* the intervention _malaria_diagnostic returns
Diagnostic(a) ==
    IF a.diagnostic_type = "TRUE_INFECTION_STATUS"
    THEN [class |-> "StandardDiagnostic"]
    ELSE [class |-> "MalariaDiagnostic",
          Measurement_Sensitivity |-> a.measurement_sensitivity,
          Detection_Threshold |-> a.detection_threshold,
          Diagnostic_Type |-> a.diagnostic_type]

\* one call of _malaria_diagnostic: the campaign is only read for its schema
malaria_diagnostic(a) ==
    /\ events' = events
    /\ log' = Append(log,
           IF DiagnosticCheck(a) # "ok"
           THEN [op |-> "_malaria_diagnostic", args |-> a,
                 outcome |-> DiagnosticCheck(a), ret |-> NoValue]
           ELSE [op |-> "_malaria_diagnostic", args |-> a,
                 outcome |-> "returned", ret |-> Diagnostic(a)])

----------------------------------------------------------------------------
(* add_triggered_campaign_delay_event *)

\* the defaults of the signature
TriggeredDefaults ==
    [start_day |-> 1,
     trigger_condition_list |-> PyNone,
     listening_duration |-> -1,
     delay_period_constant |-> 0,
     demographic_coverage |-> 100,
     node_ids |-> PyNone,
     repetitions |-> 1,
     timesteps_between_repetitions |-> 365,
     ind_property_restrictions |-> PyNone,
     disqualifying_properties |-> PyNone,
     target_age_min |-> 0,
     target_age_max |-> 125,
     target_gender |-> "All",
     target_residents_only |-> FALSE,
     blackout_event_trigger |-> PyNone,
     blackout_period |-> 0,
     blackout_on_first_occurrence |-> 0,
     individual_intervention |-> PyNone]

\* a call that overrides every default
TriggeredCustom ==
    [start_day |-> 850,
     trigger_condition_list |-> List(<<"Births", "NewInfection">>),
     listening_duration |-> 200,
     delay_period_constant |-> 7,
     demographic_coverage |-> 80,
     node_ids |-> List(<<1, 2>>),
     repetitions |-> 3,
     timesteps_between_repetitions |-> 30,
     ind_property_restrictions |-> List(<<Dict("Risk", "High")>>),
     disqualifying_properties |-> List(<<PyStr("Access:No")>>),
     target_age_min |-> 5,
     target_age_max |-> 15,
     target_gender |-> "Male",
     target_residents_only |-> TRUE,
     blackout_event_trigger |-> PyStr("Blackout"),
     blackout_period |-> 14,
     blackout_on_first_occurrence |-> 1,
     individual_intervention |-> List(<<IvA, IvB>>)]

\* every argument chosen on its own
TriggeredArgs ==
    [start_day : {TriggeredDefaults.start_day, TriggeredCustom.start_day},
     trigger_condition_list :
         {PyNone, List(<<>>), List(<<"Births">>), TriggeredCustom.trigger_condition_list},
     listening_duration :
         {TriggeredDefaults.listening_duration, TriggeredCustom.listening_duration},
     delay_period_constant :
         {TriggeredDefaults.delay_period_constant, TriggeredCustom.delay_period_constant},
     demographic_coverage :
         {TriggeredDefaults.demographic_coverage, TriggeredCustom.demographic_coverage},
     node_ids : {TriggeredDefaults.node_ids, TriggeredCustom.node_ids},
     repetitions : {TriggeredDefaults.repetitions, TriggeredCustom.repetitions},
     timesteps_between_repetitions :
         {TriggeredDefaults.timesteps_between_repetitions,
          TriggeredCustom.timesteps_between_repetitions},
     ind_property_restrictions :
         {PyNone, List(<<PyStr("Risk:High")>>), TriggeredCustom.ind_property_restrictions,
          List(<<Dict("Risk", "High"), PyStr("Age:Old")>>),
          List(<<PyStr("Age:Old"), Dict("Risk", "High")>>)},
     disqualifying_properties :
         {TriggeredDefaults.disqualifying_properties, TriggeredCustom.disqualifying_properties},
     target_age_min : {TriggeredDefaults.target_age_min, TriggeredCustom.target_age_min},
     target_age_max : {TriggeredDefaults.target_age_max, TriggeredCustom.target_age_max},
     target_gender : {TriggeredDefaults.target_gender, TriggeredCustom.target_gender},
     target_residents_only : BOOLEAN,
     blackout_event_trigger :
         {TriggeredDefaults.blackout_event_trigger, TriggeredCustom.blackout_event_trigger},
     blackout_period : {TriggeredDefaults.blackout_period, TriggeredCustom.blackout_period},
     blackout_on_first_occurrence :
         {TriggeredDefaults.blackout_on_first_occurrence,
          TriggeredCustom.blackout_on_first_occurrence},
     individual_intervention : {PyNone, IvA, List(<<>>), List(<<IvA, IvB>>)}]

\* the calls of a sequence: all defaults or none, with every choice of triggers
TriggeredSeqArgs ==
    {[[base EXCEPT !.trigger_condition_list = t] EXCEPT !.individual_intervention = i] :
        base \in {TriggeredDefaults, TriggeredCustom},
        t \in {PyNone, List(<<>>), List(<<"Births">>)},
        i \in {IvA, List(<<IvA, IvB>>)}}

\* a check that tests for None only
TriggeredCheckNoneOnly(a) ==
    IF a.trigger_condition_list = PyNone THEN "ValueError" ELSE "ok"

\* the check at the head of add_triggered_campaign_delay_event
TriggeredCheck(a) ==
    IF ~Truthy(a.trigger_condition_list) THEN "ValueError" ELSE "ok"

\* utils._convert_prs is code of the library, not of this repository: it may
\* hand the restrictions on as they are, or turn "Key:Value" strings into
\* dictionaries
ConvertPrsBehaviours == {"as given", "strings to dictionaries"}

\* one restriction as the library hands it back
ConvertRestriction(x) ==
    IF library = "strings to dictionaries" /\ x = PyStr("Risk:High")
    THEN Dict("Risk", "High")
    ELSE IF library = "strings to dictionaries" /\ x = PyStr("Age:Old")
    THEN Dict("Age", "Old")
    ELSE x

\* utils._convert_prs: no restrictions for None, else the list of the converted
\* restrictions
convert_prs(prs) ==
    IF Truthy(prs)
    THEN List([i \in 1..Len(prs.v) |-> ConvertRestriction(prs.v[i])])
    ELSE List(<<>>)

\* a test that only looks whether there are restrictions
IsListOfDictsAnyType(prs) == Len(prs.v) > 0

\* len(individual_restrictions) > 0 and type(individual_restrictions[0]) is dict
IsListOfDicts(prs) == Len(prs.v) > 0 /\ prs.v[1].class = "dict"

\* a builder that hands the delay over as the duration and the duration as the delay
TriggeredEventDelayAsDuration(a) ==
    [class |-> "TriggeredCampaignEvent",
     Start_Day |-> a.start_day,
     Event_Name |-> "TriggeredEvent",
     Triggers |-> a.trigger_condition_list,
     Intervention_List |-> AsInterventionList(a.individual_intervention),
     Node_Ids |-> a.node_ids,
     Timesteps_Between_Repetitions |-> a.timesteps_between_repetitions,
     Number_Repetitions |-> a.repetitions,
     Target_Gender |-> a.target_gender,
     Target_Age_Max |-> a.target_age_max,
     Target_Age_Min |-> a.target_age_min,
     Target_Residents_Only |-> IF a.target_residents_only THEN 1 ELSE 0,
     Duration |-> a.delay_period_constant,
     Demographic_Coverage |-> a.demographic_coverage,
     Delay |-> a.listening_duration,
     Disqualifying_Properties |-> a.disqualifying_properties,
     Blackout_Period |-> a.blackout_period,
     Blackout_Event_Trigger |-> a.blackout_event_trigger,
     Blackout_On_First_Occurrence |-> a.blackout_on_first_occurrence,
     Property_Restrictions_Within_Node |->
         IF IsListOfDicts(convert_prs(a.ind_property_restrictions))
         THEN convert_prs(a.ind_property_restrictions) ELSE SchemaDefault,
     Property_Restrictions |->
         IF IsListOfDicts(convert_prs(a.ind_property_restrictions))
         THEN SchemaDefault ELSE convert_prs(a.ind_property_restrictions)]

\* the TriggeredCampaignEvent and the restrictions set on its intervention
TriggeredEvent(a) ==
    [class |-> "TriggeredCampaignEvent",
     Start_Day |-> a.start_day,
     Event_Name |-> "TriggeredEvent",
     Triggers |-> a.trigger_condition_list,
     Intervention_List |-> AsInterventionList(a.individual_intervention),
     Node_Ids |-> a.node_ids,
     Timesteps_Between_Repetitions |-> a.timesteps_between_repetitions,
     Number_Repetitions |-> a.repetitions,
     Target_Gender |-> a.target_gender,
     Target_Age_Max |-> a.target_age_max,
     Target_Age_Min |-> a.target_age_min,
     Target_Residents_Only |-> IF a.target_residents_only THEN 1 ELSE 0,
     Duration |-> a.listening_duration,
     Demographic_Coverage |-> a.demographic_coverage,
     Delay |-> a.delay_period_constant,
     Disqualifying_Properties |-> a.disqualifying_properties,
     Blackout_Period |-> a.blackout_period,
     Blackout_Event_Trigger |-> a.blackout_event_trigger,
     Blackout_On_First_Occurrence |-> a.blackout_on_first_occurrence,
     Property_Restrictions_Within_Node |->
         IF IsListOfDicts(convert_prs(a.ind_property_restrictions))
         THEN convert_prs(a.ind_property_restrictions) ELSE SchemaDefault,
     Property_Restrictions |->
         IF IsListOfDicts(convert_prs(a.ind_property_restrictions))
         THEN SchemaDefault ELSE convert_prs(a.ind_property_restrictions)]

\* one call of add_triggered_campaign_delay_event on the campaign
add_triggered_campaign_delay_event(a) ==
    IF TriggeredCheck(a) # "ok"
    THEN /\ events' = events
         /\ log' = Append(log, [op |-> "add_triggered_campaign_delay_event", args |-> a,
                                outcome |-> TriggeredCheck(a), ret |-> NoValue])
    ELSE /\ events' = campaign_add(events, TriggeredEvent(a))
         /\ log' = Append(log, [op |-> "add_triggered_campaign_delay_event", args |-> a,
                                outcome |-> "returned", ret |-> PyNone])

----------------------------------------------------------------------------
(* add_campaign_event *)

\* the defaults of the signature
ACEDefaults ==
    [start_day |-> 1,
     demographic_coverage |-> 100,
     target_num_individuals |-> PyNone,
     node_ids |-> PyNone,
     repetitions |-> 1,
     timesteps_between_repetitions |-> 365,
     ind_property_restrictions |-> PyNone,
     node_property_restrictions |-> PyNone,
     target_age_min |-> 0,
     target_age_max |-> 125,
     target_gender |-> "All",
     target_residents_only |-> FALSE,
     individual_intervention |-> PyNone,
     node_intervention |-> PyNone]

\* a call that overrides every default
ACECustom ==
    [start_day |-> 850,
     demographic_coverage |-> 80,
     target_num_individuals |-> PyInt(10),
     node_ids |-> List(<<1, 2>>),
     repetitions |-> 3,
     timesteps_between_repetitions |-> 30,
     ind_property_restrictions |-> List(<<Dict("Risk", "High")>>),
     node_property_restrictions |-> List(<<Dict("Place", "URBAN")>>),
     target_age_min |-> 5,
     target_age_max |-> 15,
     target_gender |-> "Male",
     target_residents_only |-> TRUE,
     individual_intervention |-> List(<<IvA, IvB>>),
     node_intervention |-> List(<<NodeIvA, NodeIvB>>)]

\* every argument chosen on its own
ACEArgs ==
    [start_day : {ACEDefaults.start_day, ACECustom.start_day},
     demographic_coverage : {ACEDefaults.demographic_coverage, ACECustom.demographic_coverage},
     target_num_individuals :
         {ACEDefaults.target_num_individuals, ACECustom.target_num_individuals},
     node_ids : {ACEDefaults.node_ids, List(<<>>), ACECustom.node_ids},
     repetitions : {ACEDefaults.repetitions, ACECustom.repetitions},
     timesteps_between_repetitions :
         {ACEDefaults.timesteps_between_repetitions, ACECustom.timesteps_between_repetitions},
     ind_property_restrictions :
         {ACEDefaults.ind_property_restrictions, ACECustom.ind_property_restrictions},
     node_property_restrictions :
         {ACEDefaults.node_property_restrictions, List(<<>>),
          ACECustom.node_property_restrictions},
     target_age_min : {ACEDefaults.target_age_min, ACECustom.target_age_min},
     target_age_max : {ACEDefaults.target_age_max, ACECustom.target_age_max},
     target_gender : {ACEDefaults.target_gender, ACECustom.target_gender},
     target_residents_only : BOOLEAN,
     individual_intervention : IndividualInterventions,
     node_intervention : NodeInterventions]

\* the calls of a sequence: all defaults or none, with every choice of interventions
ACESeqArgs ==
    {[[base EXCEPT !.individual_intervention = i] EXCEPT !.node_intervention = n] :
        base \in {ACEDefaults, ACECustom},
        i \in {PyNone, List(<<>>), IvA, List(<<IvA, IvB>>)},
        n \in {PyNone, NodeIvA, List(<<NodeIvA, NodeIvB>>)}}

\* a check that has lost its second test
ACECheckBothOnly(a) ==
    IF Truthy(a.individual_intervention) /\ Truthy(a.node_intervention) THEN "ValueError"
    ELSE "ok"

\* the two checks at the head of add_campaign_event
ACECheck(a) ==
    IF Truthy(a.individual_intervention) /\ Truthy(a.node_intervention) THEN "ValueError"
    ELSE IF ~Truthy(a.individual_intervention) /\ ~Truthy(a.node_intervention)
    THEN "ValueError"
    ELSE "ok"

\* a builder that hands the two target ages over the wrong way round
ScheduledEventSwappedAges(a) ==
    [class |-> "ScheduledCampaignEvent",
     Start_Day |-> a.start_day,
     Node_Ids |-> a.node_ids,
     Number_Repetitions |-> a.repetitions,
     Timesteps_Between_Repetitions |-> a.timesteps_between_repetitions,
     Event_Name |-> "ScheduledCampaignEvent",
     Demographic_Coverage |-> a.demographic_coverage,
     Property_Restrictions |-> a.ind_property_restrictions,
     Target_Age_Min |-> a.target_age_max,
     Target_Age_Max |-> a.target_age_min,
     Target_Gender |-> a.target_gender,
     Target_Residents_Only |-> a.target_residents_only,
     Intervention_List |-> AsInterventionList(a.individual_intervention),
     Event_Coordinator_Config |->
         [class |-> "StandardEventCoordinator",
          Target_Num_Individuals |-> a.target_num_individuals,
          Node_Property_Restrictions |-> SchemaDefault]]

\* the individual branch: the ScheduledCampaignEvent and its coordinator
ScheduledEvent(a) ==
    [class |-> "ScheduledCampaignEvent",
     Start_Day |-> a.start_day,
     Node_Ids |-> a.node_ids,
     Number_Repetitions |-> a.repetitions,
     Timesteps_Between_Repetitions |-> a.timesteps_between_repetitions,
     Event_Name |-> "ScheduledCampaignEvent",
     Demographic_Coverage |-> a.demographic_coverage,
     Property_Restrictions |-> a.ind_property_restrictions,
     Target_Age_Min |-> a.target_age_min,
     Target_Age_Max |-> a.target_age_max,
     Target_Gender |-> a.target_gender,
     Target_Residents_Only |-> a.target_residents_only,
     Intervention_List |-> AsInterventionList(a.individual_intervention),
     Event_Coordinator_Config |->
         [class |-> "StandardEventCoordinator",
          Target_Num_Individuals |-> a.target_num_individuals,
          Node_Property_Restrictions |-> SchemaDefault]]

\* a branch that wraps a single node intervention as well
NodeInterventionConfigAlwaysWrap(node_intervention) ==
    [class |-> "MultiNodeInterventionDistributor",
     Node_Intervention_List |-> node_intervention]

\* Intervention_Config of the node branch
NodeInterventionConfig(node_intervention) ==
    IF IsList(node_intervention)
    THEN [class |-> "MultiNodeInterventionDistributor",
          Node_Intervention_List |-> node_intervention]
    ELSE node_intervention

\* the node branch: the CampaignEvent and its StandardEventCoordinator
NodeEvent(a) ==
    [class |-> "CampaignEvent",
     Start_Day |-> a.start_day,
     Nodeset_Config |-> do_nodes(a.node_ids),
     Event_Coordinator_Config |->
         [class |-> "StandardEventCoordinator",
          Number_Repetitions |-> a.repetitions,
          Timesteps_Between_Repetitions |-> a.timesteps_between_repetitions,
          Node_Property_Restrictions |-> a.node_property_restrictions,
          Intervention_Config |-> NodeInterventionConfig(a.node_intervention)]]

\* the campaign after add_campaign_event(camp, a): unchanged when the call raises
ACECampaign(camp, a) ==
    IF ACECheck(a) # "ok"
    THEN camp
    ELSE campaign_add(camp, IF Truthy(a.individual_intervention)
                            THEN ScheduledEvent(a) ELSE NodeEvent(a))

\* how add_campaign_event(camp, a) ends
ACEOutcome(a) == IF ACECheck(a) # "ok" THEN ACECheck(a) ELSE "returned"

\* what a function that returns nothing hands back, and what one that raised does
ReturnOf(outcome) == IF outcome = "returned" THEN PyNone ELSE NoValue

\* one call of add_campaign_event on the campaign
add_campaign_event(a) ==
    /\ events' = ACECampaign(events, a)
    /\ log' = Append(log, [op |-> "add_campaign_event", args |-> a,
                           outcome |-> ACEOutcome(a), ret |-> ReturnOf(ACEOutcome(a))])

----------------------------------------------------------------------------
(* spacespraying: add_scheduled_space_spraying, add_scheduled_spatial_repellent *)

\* the defaults of the signature of add_scheduled_space_spraying
SprayDefaults ==
    [start_day |-> 1,
     node_ids |-> PyNone,
     node_property_restrictions |-> PyNone,
     repetitions |-> 1,
     timesteps_between_repetitions |-> 365,
     spray_coverage |-> 100,
     insecticide |-> "",
     killing_initial_effect |-> 100,
     killing_box_duration |-> -1,
     killing_decay_time_constant |-> 0,
     intervention_name |-> "SpaceSpraying",
     cost_to_consumer |-> 0,
     disqualifying_properties |-> PyNone,
     dont_allow_duplicates |-> FALSE,
     new_property_value |-> ""]

\* a call that overrides every default
SprayCustom ==
    [start_day |-> 850,
     node_ids |-> List(<<1, 2>>),
     node_property_restrictions |-> List(<<Dict("Place", "URBAN")>>),
     repetitions |-> 3,
     timesteps_between_repetitions |-> 30,
     spray_coverage |-> 80,
     insecticide |-> "pyrethroid",
     killing_initial_effect |-> 9,
     killing_box_duration |-> 90,
     killing_decay_time_constant |-> 45,
     intervention_name |-> "MySpray",
     cost_to_consumer |-> 2,
     disqualifying_properties |-> List(<<PyStr("Sprayed:Yes")>>),
     dont_allow_duplicates |-> TRUE,
     new_property_value |-> "Sprayed:Yes"]

\* every argument chosen on its own
SprayArgs ==
    [start_day : {SprayDefaults.start_day, SprayCustom.start_day},
     node_ids : {SprayDefaults.node_ids, List(<<>>), SprayCustom.node_ids},
     node_property_restrictions :
         {SprayDefaults.node_property_restrictions, List(<<>>),
          SprayCustom.node_property_restrictions},
     repetitions : {SprayDefaults.repetitions, SprayCustom.repetitions},
     timesteps_between_repetitions :
         {SprayDefaults.timesteps_between_repetitions,
          SprayCustom.timesteps_between_repetitions},
     spray_coverage : {SprayDefaults.spray_coverage, SprayCustom.spray_coverage},
     insecticide : {SprayDefaults.insecticide, SprayCustom.insecticide},
     killing_initial_effect :
         {SprayDefaults.killing_initial_effect, SprayCustom.killing_initial_effect},
     killing_box_duration :
         {SprayDefaults.killing_box_duration, SprayCustom.killing_box_duration},
     killing_decay_time_constant :
         {SprayDefaults.killing_decay_time_constant, SprayCustom.killing_decay_time_constant},
     intervention_name : {SprayDefaults.intervention_name, SprayCustom.intervention_name},
     cost_to_consumer : {SprayDefaults.cost_to_consumer, SprayCustom.cost_to_consumer},
     disqualifying_properties :
         {SprayDefaults.disqualifying_properties, SprayCustom.disqualifying_properties},
     dont_allow_duplicates : BOOLEAN,
     new_property_value : {SprayDefaults.new_property_value, SprayCustom.new_property_value}]

\* utils.get_waning_from_params: the waning effect of the three parameters
get_waning_from_params(initial, box_duration, decay_time_constant) ==
    [class |-> "WaningEffect",
     initial |-> initial,
     box_duration |-> box_duration,
     decay_time_constant |-> decay_time_constant]

\* a builder that hands the box duration and the decay constant over the wrong way round
space_spraying_swapped(a) ==
    [class |-> "SpaceSpraying",
     Intervention_Name |-> a.intervention_name,
     Insecticide_Name |-> a.insecticide,
     Spray_Coverage |-> a.spray_coverage,
     Cost_To_Consumer |-> a.cost_to_consumer,
     Disqualifying_Properties |-> a.disqualifying_properties,
     Dont_Allow_Duplicates |-> IF a.dont_allow_duplicates THEN 1 ELSE 0,
     New_Property_Value |-> a.new_property_value,
     Killing_Config |-> get_waning_from_params(a.killing_initial_effect,
                                               a.killing_decay_time_constant,
                                               a.killing_box_duration)]

\* _space_spraying: the SpaceSpraying intervention
space_spraying(a) ==
    [class |-> "SpaceSpraying",
     Intervention_Name |-> a.intervention_name,
     Insecticide_Name |-> a.insecticide,
     Spray_Coverage |-> a.spray_coverage,
     Cost_To_Consumer |-> a.cost_to_consumer,
     Disqualifying_Properties |-> a.disqualifying_properties,
     Dont_Allow_Duplicates |-> IF a.dont_allow_duplicates THEN 1 ELSE 0,
     New_Property_Value |-> a.new_property_value,
     Killing_Config |-> get_waning_from_params(a.killing_initial_effect,
                                               a.killing_box_duration,
                                               a.killing_decay_time_constant)]

\* the call of add_campaign_event that schedules a node intervention
ScheduleNodeIntervention(a, intervention) ==
    [ACEDefaults EXCEPT !.start_day = a.start_day,
                        !.node_ids = a.node_ids,
                        !.repetitions = a.repetitions,
                        !.timesteps_between_repetitions = a.timesteps_between_repetitions,
                        !.node_intervention = intervention,
                        !.node_property_restrictions = a.node_property_restrictions]

\* the defaults of the signature of add_scheduled_spatial_repellent
RepellentDefaults ==
    [start_day |-> 1,
     node_ids |-> PyNone,
     node_property_restrictions |-> PyNone,
     repetitions |-> 1,
     timesteps_between_repetitions |-> 365,
     spray_coverage |-> 100,
     insecticide |-> "",
     repelling_initial_effect |-> 100,
     repelling_box_duration |-> -1,
     repelling_decay_time_constant |-> 0,
     intervention_name |-> "SpaceSpraying",
     cost_to_consumer |-> 0,
     disqualifying_properties |-> PyNone,
     dont_allow_duplicates |-> FALSE,
     new_property_value |-> ""]

\* a call that overrides every default
RepellentCustom ==
    [start_day |-> 850,
     node_ids |-> List(<<1, 2>>),
     node_property_restrictions |-> List(<<Dict("Place", "URBAN")>>),
     repetitions |-> 3,
     timesteps_between_repetitions |-> 30,
     spray_coverage |-> 80,
     insecticide |-> "pyrethroid",
     repelling_initial_effect |-> 45,
     repelling_box_duration |-> 100,
     repelling_decay_time_constant |-> 60,
     intervention_name |-> "MyRepellent",
     cost_to_consumer |-> 2,
     disqualifying_properties |-> List(<<PyStr("Repelled:Yes")>>),
     dont_allow_duplicates |-> TRUE,
     new_property_value |-> "Repelled:Yes"]

\* every argument chosen on its own
RepellentArgs ==
    [start_day : {RepellentDefaults.start_day, RepellentCustom.start_day},
     node_ids : {RepellentDefaults.node_ids, List(<<>>), RepellentCustom.node_ids},
     node_property_restrictions :
         {RepellentDefaults.node_property_restrictions, List(<<>>),
          RepellentCustom.node_property_restrictions},
     repetitions : {RepellentDefaults.repetitions, RepellentCustom.repetitions},
     timesteps_between_repetitions :
         {RepellentDefaults.timesteps_between_repetitions,
          RepellentCustom.timesteps_between_repetitions},
     spray_coverage : {RepellentDefaults.spray_coverage, RepellentCustom.spray_coverage},
     insecticide : {RepellentDefaults.insecticide, RepellentCustom.insecticide},
     repelling_initial_effect :
         {RepellentDefaults.repelling_initial_effect, RepellentCustom.repelling_initial_effect},
     repelling_box_duration :
         {RepellentDefaults.repelling_box_duration, RepellentCustom.repelling_box_duration},
     repelling_decay_time_constant :
         {RepellentDefaults.repelling_decay_time_constant,
          RepellentCustom.repelling_decay_time_constant},
     intervention_name :
         {RepellentDefaults.intervention_name, RepellentCustom.intervention_name},
     cost_to_consumer : {RepellentDefaults.cost_to_consumer, RepellentCustom.cost_to_consumer},
     disqualifying_properties :
         {RepellentDefaults.disqualifying_properties, RepellentCustom.disqualifying_properties},
     dont_allow_duplicates : BOOLEAN,
     new_property_value :
         {RepellentDefaults.new_property_value, RepellentCustom.new_property_value}]

\* a configuration of the schema's object that the code never assigns
SchemaDefaultConfig == [class |-> "schema default"]

\* _spatial_repellent: the SpatialRepelling intervention; the only waning effect
\* it assigns is Killing_Config, Repelling_Config stays as the schema has it
spatial_repellent(a) ==
    [class |-> "SpatialRepelling",
     Intervention_Name |-> a.intervention_name,
     Insecticide_Name |-> a.insecticide,
     Spray_Coverage |-> a.spray_coverage,
     Cost_To_Consumer |-> a.cost_to_consumer,
     Disqualifying_Properties |-> a.disqualifying_properties,
     Dont_Allow_Duplicates |-> IF a.dont_allow_duplicates THEN 1 ELSE 0,
     New_Property_Value |-> a.new_property_value,
     Killing_Config |-> get_waning_from_params(a.repelling_initial_effect,
                                               a.repelling_box_duration,
                                               a.repelling_decay_time_constant),
     Repelling_Config |-> SchemaDefaultConfig]

\* one call of add_scheduled_spatial_repellent on the campaign
add_scheduled_spatial_repellent(a) ==
    LET ace == ScheduleNodeIntervention(a, spatial_repellent(a))
    IN /\ events' = ACECampaign(events, ace)
       /\ log' = Append(log, [op |-> "add_scheduled_spatial_repellent", args |-> a,
                              outcome |-> ACEOutcome(ace),
                              ret |-> ReturnOf(ACEOutcome(ace))])

\* one call of add_scheduled_space_spraying on the campaign
add_scheduled_space_spraying(a) ==
    LET ace == ScheduleNodeIntervention(a, space_spraying(a))
    IN /\ events' = ACECampaign(events, ace)
       /\ log' = Append(log, [op |-> "add_scheduled_space_spraying", args |-> a,
                              outcome |-> ACEOutcome(ace),
                              ret |-> ReturnOf(ACEOutcome(ace))])

\* the defaults of the signature of new_intervention_as_file
NewInterventionDefaults == [start_day |-> 0, filename |-> "SpaceSpraying.json"]

\* the calls of new_intervention_as_file
NewInterventionArgs ==
    [start_day : {NewInterventionDefaults.start_day, 1, 850},
     filename : {NewInterventionDefaults.filename, "x.json"}]

\* one call of new_intervention_as_file: a space spraying with defaults is
\* scheduled for start_day, the campaign is saved, the file name is returned
new_intervention_as_file(a) ==
    LET spray == [SprayDefaults EXCEPT !.start_day = a.start_day]
        ace == ScheduleNodeIntervention(spray, space_spraying(spray))
    IN /\ events' = ACECampaign(events, ace)
       /\ files' = IF ACEOutcome(ace) = "returned"
                   THEN Written(files, a.filename, ACECampaign(events, ace))
                   ELSE files
       /\ log' = Append(log, [op |-> "new_intervention_as_file", args |-> a,
                              outcome |-> ACEOutcome(ace),
                              ret |-> IF ACEOutcome(ace) = "returned"
                                      THEN PyStr(a.filename) ELSE NoValue])

----------------------------------------------------------------------------
(* examples/campaign_sweep: build_campaign, general_sim *)

\* the product of a fraction in percent and a factor in hundredths, in
\* ten-thousandths: 0.8 * 0.33 is Scaled(80, 33), that is 2640
Scaled(percent, hundredths) ==
    [class |-> "float", ten_thousandths |-> percent * hundredths]

\* the defaults of build_campaign
BuildCampaignDefaults == [spraying_coverage |-> 80, repelling_initial_effect |-> 50]

\* the values the example and its sweep give build_campaign
BuildCampaignArgs ==
    [spraying_coverage : {BuildCampaignDefaults.spraying_coverage, 50, 100},
     repelling_initial_effect : {BuildCampaignDefaults.repelling_initial_effect, 45}]

\* the arguments build_campaign gives add_scheduled_space_spraying
BuildCampaignSpray(a) ==
    [SprayDefaults EXCEPT !.start_day = 850,
                          !.node_ids = PyNone,
                          !.node_property_restrictions = List(<<>>),
                          !.spray_coverage = Scaled(a.spraying_coverage, 33),
                          !.insecticide = "",
                          !.killing_initial_effect = 9,
                          !.killing_box_duration = 100,
                          !.killing_decay_time_constant = -1]

\* the arguments build_campaign gives add_scheduled_spatial_repellent
BuildCampaignRepellent(a) ==
    [RepellentDefaults EXCEPT !.start_day = 850,
                              !.node_ids = PyNone,
                              !.node_property_restrictions = List(<<>>),
                              !.insecticide = "",
                              !.spray_coverage = a.spraying_coverage,
                              !.repelling_initial_effect = a.repelling_initial_effect,
                              !.repelling_box_duration = 100,
                              !.repelling_decay_time_constant = -1]

\* the arguments build_campaign gives irs.add_scheduled_irs_housing_modification
BuildCampaignIrs(a) ==
    [start_day |-> 850,
     node_ids |-> PyNone,
     insecticide |-> "",
     demographic_coverage |-> a.spraying_coverage,
     repelling_initial_effect |-> Scaled(a.repelling_initial_effect, 50),
     repelling_box_duration |-> 100,
     repelling_decay_time_constant |-> -1,
     killing_initial_effect |-> 0]

\* an event that irs.add_scheduled_irs_housing_modification has added for a
\* call; nothing else is known of it
IrsEvent(a) ==
    [class |-> "event of irs.add_scheduled_irs_housing_modification", args |-> a]

\* irs.add_scheduled_irs_housing_modification: the campaigns it may leave; its
\* code is not at hand, so it appends some number of events of its own
irs_housing_modification(camp, a) ==
    {camp \o [k \in 1..n |-> IrsEvent(a)] : n \in 0..MaxIrsEvents}

\* a campaign that schedules the housing modification before the two sprays
BuildCampaignCallsIrsFirst(a) ==
    <<[fn |-> "irs.add_scheduled_irs_housing_modification", args |-> BuildCampaignIrs(a)],
      [fn |-> "spray.add_scheduled_space_spraying", args |-> BuildCampaignSpray(a)],
      [fn |-> "spray.add_scheduled_spatial_repellent", args |-> BuildCampaignRepellent(a)]>>

\* the calls build_campaign makes, in its order
BuildCampaignCalls(a) ==
    <<[fn |-> "spray.add_scheduled_space_spraying", args |-> BuildCampaignSpray(a)],
      [fn |-> "spray.add_scheduled_spatial_repellent", args |-> BuildCampaignRepellent(a)],
      [fn |-> "irs.add_scheduled_irs_housing_modification", args |-> BuildCampaignIrs(a)]>>

\* how one of these calls may end on a campaign: the campaign it leaves and
\* whether it returned
CallResults(camp, call) ==
    IF call.fn = "spray.add_scheduled_space_spraying"
    THEN LET ace == ScheduleNodeIntervention(call.args, space_spraying(call.args))
         IN {[events |-> ACECampaign(camp, ace), outcome |-> ACEOutcome(ace)]}
    ELSE IF call.fn = "spray.add_scheduled_spatial_repellent"
    THEN LET ace == ScheduleNodeIntervention(call.args, spatial_repellent(call.args))
         IN {[events |-> ACECampaign(camp, ace), outcome |-> ACEOutcome(ace)]}
    ELSE {[events |-> c, outcome |-> "returned"] :
              c \in irs_housing_modification(camp, call.args)}

\* the ways the calls may run one after another on a campaign; a call that
\* raises ends the run
RECURSIVE RunCalls(_, _, _)
RunCalls(camp, calls, made) ==
    IF calls = <<>>
    THEN {[events |-> camp, outcome |-> "returned", calls |-> made]}
    ELSE UNION {IF r.outcome = "returned"
                THEN RunCalls(r.events, Tail(calls), Append(made, Head(calls)))
                ELSE {[events |-> r.events, outcome |-> r.outcome,
                       calls |-> Append(made, Head(calls))]} :
                    r \in CallResults(camp, Head(calls))}

\* the runs of build_campaign: set_schema starts the campaign afresh
BuildCampaignRuns(a) == RunCalls(<<>>, BuildCampaignCalls(a), <<>>)

\* one call of build_campaign: set_schema starts the campaign afresh, the three
\* interventions are scheduled, nothing is returned
build_campaign(a) ==
    \E run \in BuildCampaignRuns(a) :
       /\ events' = run.events
       /\ log' = Append(log, [op |-> "build_campaign", args |-> a,
                              outcome |-> run.outcome,
                              ret |-> ReturnOf(run.outcome),
                              calls |-> run.calls])
       /\ UNCHANGED <<experiment, files>>

\* the platforms the example is asked for
GeneralSimArgs == [selected_platform : {"COMPS", "SLURM_LOCAL", "slurm_local_quest"}]

\* selected_platform.upper().startswith("SLURM_LOCAL"), on the platforms above
IsSlurmLocal(selected_platform) ==
    selected_platform \in {"SLURM_LOCAL", "slurm_local_quest"}

\* the platform the experiment runs on
SelectedPlatform(selected_platform) ==
    IF IsSlurmLocal(selected_platform) THEN selected_platform ELSE "Calculon"

\* the dictionary of value lists handed to add_multiple_parameter_sweep_definition
SweepValues ==
    [spraying_coverage |-> <<80>>,
     repelling_initial_effect |-> <<45>>,
     indoor_feeding_fraction |-> <<100, 75, 50, 25, 0>>,
     run_number |-> [i \in 1..10 |-> i - 1]]

\* update_campaign_multiple_parameters: what one combination sets on a simulation
update_campaign_multiple_parameters(spraying_coverage, repelling_initial_effect, indoor_feeding_fraction, run_number) ==
    [campaign_builder |-> [spraying_coverage |-> spraying_coverage,
                           repelling_initial_effect |-> repelling_initial_effect],
     Run_Number |-> run_number,
     Indoor_Feeding_Fraction |-> indoor_feeding_fraction,
     tags |-> [spraying_coverage |-> spraying_coverage,
               repelling_initial_effect |-> repelling_initial_effect,
               indoor_feeding_fraction |-> indoor_feeding_fraction,
               run_number |-> run_number]]

\* the simulations of the builder: the cross product of the value lists, the
\* last list running fastest
Sweep(values) ==
    LET n1 == Len(values.spraying_coverage)
        n2 == Len(values.repelling_initial_effect)
        n3 == Len(values.indoor_feeding_fraction)
        n4 == Len(values.run_number)
    IN [k \in 1..(n1 * n2 * n3 * n4) |->
           update_campaign_multiple_parameters(
               values.spraying_coverage[((k - 1) \div (n2 * n3 * n4)) + 1],
               values.repelling_initial_effect[(((k - 1) \div (n3 * n4)) % n2) + 1],
               values.indoor_feeding_fraction[(((k - 1) \div n4) % n3) + 1],
               values.run_number[((k - 1) % n4) + 1])]

\* general_sim up to its wait in experiment.run: task, platform, sweep and
\* experiment are built and the experiment is handed to the platform
general_sim(a) ==
    /\ experiment' = [platform |-> SelectedPlatform(a.selected_platform),
                      simulations |-> Sweep(SweepValues),
                      created |-> 0,
                      status |-> "running"]
    /\ UNCHANGED <<events, log, files>>

\* the platform creates the next simulation of the running experiment: the sweep
\* callback hands build_campaign with the simulation's values to the task, which
\* builds the campaign with it
create_simulation ==
    /\ experiment.status = "running"
    /\ experiment.created < Len(experiment.simulations)
    /\ \E run \in BuildCampaignRuns(
                     experiment.simulations[experiment.created + 1].campaign_builder) :
           events' = run.events
    /\ experiment' = [experiment EXCEPT !.created = experiment.created + 1]
    /\ UNCHANGED <<log, files>>

\* the platform has run every simulation: the experiment succeeded or failed
experiment_done ==
    /\ experiment.status = "running"
    /\ experiment.created = Len(experiment.simulations)
    /\ \E succeeded \in BOOLEAN :
           experiment' = [experiment EXCEPT
                             !.status = IF succeeded THEN "succeeded" ELSE "failed"]
    /\ UNCHANGED <<events, log, files>>

\* general_sim after experiment.run: a failed experiment ends the program, a
\* successful one has its id written to the file experiment_id
general_sim_after_run(a) ==
    /\ experiment.status \in {"succeeded", "failed"}
    /\ files' = IF experiment.status = "succeeded"
                THEN Written(files, "experiment_id", "experiment.id")
                ELSE files
    /\ log' = Append(log, [op |-> "general_sim", args |-> a,
                           outcome |-> IF experiment.status = "succeeded"
                                       THEN "returned" ELSE "exit",
                           ret |-> IF experiment.status = "succeeded"
                                   THEN PyNone ELSE NoValue])
    /\ UNCHANGED <<events, experiment>>

----------------------------------------------------------------------------
(* Specifications *)

Init ==
    /\ events = <<>>
    /\ log = <<>>
    /\ pending = NoCall
    /\ experiment = NoExperiment
    /\ files = {}
    /\ library \in ConvertPrsBehaviours

\* calls made one after another on one campaign
SeqMalariaDiagnostic ==
    /\ Len(log) < MaxCalls
    /\ \E a \in DiagnosticSeqArgs : malaria_diagnostic(a)
    /\ UNCHANGED <<pending, experiment, files, library>>

SeqAddTriggeredCampaignDelayEvent ==
    /\ Len(log) < MaxCalls
    /\ \E a \in TriggeredSeqArgs : add_triggered_campaign_delay_event(a)
    /\ UNCHANGED <<pending, experiment, files, library>>

SeqAddCampaignEvent ==
    /\ Len(log) < MaxCalls
    /\ \E a \in ACESeqArgs : add_campaign_event(a)
    /\ UNCHANGED <<pending, experiment, files, library>>

Next ==
    \/ SeqMalariaDiagnostic
    \/ SeqAddTriggeredCampaignDelayEvent
    \/ SeqAddCampaignEvent

Spec == Init /\ [][Next]_vars

\* one call on a new campaign, over every combination of arguments
InitFirst ==
    /\ events = <<>>
    /\ log = <<>>
    /\ experiment = NoExperiment
    /\ files = {}
    /\ pending \in [op : {"_malaria_diagnostic"}, args : DiagnosticArgs]
                    \cup [op : {"add_triggered_campaign_delay_event"}, args : TriggeredArgs]
                    \cup [op : {"add_campaign_event"}, args : ACEArgs]
                    \cup [op : {"add_scheduled_space_spraying"}, args : SprayArgs]
                    \cup [op : {"add_scheduled_spatial_repellent"}, args : RepellentArgs]
                    \cup [op : {"general_sim"}, args : GeneralSimArgs]
                    \cup [op : {"new_intervention_as_file"}, args : NewInterventionArgs]
                    \cup [op : {"build_campaign"}, args : BuildCampaignArgs]
    /\ library \in IF pending.op = "add_triggered_campaign_delay_event"
                    THEN ConvertPrsBehaviours
                    ELSE {"as given"}

FirstMalariaDiagnostic ==
    /\ pending.op = "_malaria_diagnostic"
    /\ malaria_diagnostic(pending.args)
    /\ pending' = NoCall
    /\ UNCHANGED library
    /\ UNCHANGED <<experiment, files>>

FirstAddTriggeredCampaignDelayEvent ==
    /\ pending.op = "add_triggered_campaign_delay_event"
    /\ add_triggered_campaign_delay_event(pending.args)
    /\ pending' = NoCall
    /\ UNCHANGED library
    /\ UNCHANGED <<experiment, files>>

FirstAddCampaignEvent ==
    /\ pending.op = "add_campaign_event"
    /\ add_campaign_event(pending.args)
    /\ pending' = NoCall
    /\ UNCHANGED library
    /\ UNCHANGED <<experiment, files>>

FirstAddScheduledSpaceSpraying ==
    /\ pending.op = "add_scheduled_space_spraying"
    /\ add_scheduled_space_spraying(pending.args)
    /\ pending' = NoCall
    /\ UNCHANGED library
    /\ UNCHANGED <<experiment, files>>

FirstAddScheduledSpatialRepellent ==
    /\ pending.op = "add_scheduled_spatial_repellent"
    /\ add_scheduled_spatial_repellent(pending.args)
    /\ pending' = NoCall
    /\ UNCHANGED library
    /\ UNCHANGED <<experiment, files>>

FirstGeneralSim ==
    /\ pending.op = "general_sim"
    /\ general_sim(pending.args)
    /\ pending' = [op |-> "experiment.run", args |-> pending.args]
    /\ UNCHANGED library

PlatformCreatesSimulation ==
    /\ pending.op = "experiment.run"
    /\ create_simulation
    /\ UNCHANGED pending
    /\ UNCHANGED library

PlatformEndsExperiment ==
    /\ pending.op = "experiment.run"
    /\ experiment_done
    /\ UNCHANGED pending
    /\ UNCHANGED library

GeneralSimAfterRun ==
    /\ pending.op = "experiment.run"
    /\ general_sim_after_run(pending.args)
    /\ pending' = NoCall
    /\ UNCHANGED library

FirstNewInterventionAsFile ==
    /\ pending.op = "new_intervention_as_file"
    /\ new_intervention_as_file(pending.args)
    /\ pending' = NoCall
    /\ UNCHANGED library
    /\ UNCHANGED experiment

FirstBuildCampaign ==
    /\ pending.op = "build_campaign"
    /\ build_campaign(pending.args)
    /\ pending' = NoCall
    /\ UNCHANGED library

NextFirst ==
    \/ FirstMalariaDiagnostic
    \/ FirstAddTriggeredCampaignDelayEvent
    \/ FirstAddCampaignEvent
    \/ FirstAddScheduledSpaceSpraying
    \/ FirstAddScheduledSpatialRepellent
    \/ FirstGeneralSim
    \/ PlatformCreatesSimulation
    \/ PlatformEndsExperiment
    \/ GeneralSimAfterRun
    \/ FirstNewInterventionAsFile
    \/ FirstBuildCampaign

SpecFirst == InitFirst /\ [][NextFirst]_vars

\* the last call made and, when it added one, the event at the end of the campaign
LastCall == log[Len(log)]

LastEvent == events[Len(events)]

----------------------------------------------------------------------------
(* Claims *)

\* an argument that holds something to distribute: neither None nor an empty list
Given(x) == x # PyNone /\ x # List(<<>>)

IsCall(name) == Len(log) > 0 /\ LastCall.op = name

\* C1: add_campaign_event raises ValueError when both individual_intervention
\* and node_intervention are given and when neither is given; it adds an event
\* exactly when one of the two is given.
C1_ExactlyOneIntervention ==
    IsCall("add_campaign_event") =>
        LET ind == Given(LastCall.args.individual_intervention)
            node == Given(LastCall.args.node_intervention)
        IN /\ (ind /\ node) => (LastCall.outcome = "ValueError" /\ events = <<>>)
           /\ (~ind /\ ~node) => (LastCall.outcome = "ValueError" /\ events = <<>>)
           /\ (Len(events) = 1) <=> (ind # node)
           /\ (LastCall.outcome = "returned") <=> (ind # node)

C1_Witness ==
    /\ IsCall("add_campaign_event")
    /\ LastCall.args.individual_intervention = IvA
    /\ LastCall.args.node_intervention = List(<<NodeIvA, NodeIvB>>)
    /\ LastCall.outcome = "ValueError"

\* C2: add_triggered_campaign_delay_event raises ValueError when
\* trigger_condition_list is None or an empty list, and the campaign gets no
\* event; with a non-empty trigger list it returns without that error.
C2_TriggersRequired ==
    IsCall("add_triggered_campaign_delay_event") =>
        LET t == LastCall.args.trigger_condition_list
        IN IF t = PyNone \/ t = List(<<>>)
           THEN LastCall.outcome = "ValueError" /\ events = <<>>
           ELSE LastCall.outcome = "returned"

C2_Witness ==
    /\ IsCall("add_triggered_campaign_delay_event")
    /\ LastCall.args.trigger_condition_list = List(<<>>)
    /\ LastCall.args.individual_intervention = IvA
    /\ LastCall.outcome = "ValueError"
    /\ events = <<>>

\* C3: _malaria_diagnostic with TRUE_INFECTION_STATUS raises ValueError and
\* returns no intervention when measurement_sensitivity or detection_threshold
\* is not 0; with both 0 it does not raise.
C3_TrueInfectionStatusTakesNoParameters ==
    (IsCall("_malaria_diagnostic") /\ LastCall.args.diagnostic_type = "TRUE_INFECTION_STATUS") =>
        IF LastCall.args.measurement_sensitivity # 0 \/ LastCall.args.detection_threshold # 0
        THEN LastCall.outcome = "ValueError" /\ LastCall.ret = NoValue
        ELSE LastCall.outcome = "returned"

C3_Witness ==
    /\ IsCall("_malaria_diagnostic")
    /\ LastCall.args.diagnostic_type = "TRUE_INFECTION_STATUS"
    /\ LastCall.args.measurement_sensitivity = 0
    /\ LastCall.args.detection_threshold = 40
    /\ LastCall.outcome = "ValueError"

\* C4: _malaria_diagnostic returns a StandardDiagnostic exactly for
\* TRUE_INFECTION_STATUS; for every other type it returns a MalariaDiagnostic
\* whose Diagnostic_Type, Measurement_Sensitivity and Detection_Threshold are
\* the three arguments.
C4_DiagnosticClass ==
    IsCall("_malaria_diagnostic") =>
        IF LastCall.args.diagnostic_type = "TRUE_INFECTION_STATUS"
        THEN LastCall.outcome = "returned" => LastCall.ret = [class |-> "StandardDiagnostic"]
        ELSE /\ LastCall.outcome = "returned"
             /\ LastCall.ret.class = "MalariaDiagnostic"
             /\ LastCall.ret.Diagnostic_Type = LastCall.args.diagnostic_type
             /\ LastCall.ret.Measurement_Sensitivity = LastCall.args.measurement_sensitivity
             /\ LastCall.ret.Detection_Threshold = LastCall.args.detection_threshold

C4_Witness ==
    /\ IsCall("_malaria_diagnostic")
    /\ LastCall.args.diagnostic_type = "PCR_PARASITES"
    /\ LastCall.args.measurement_sensitivity = 10
    /\ LastCall.args.detection_threshold = 40
    /\ LastCall.ret.class = "MalariaDiagnostic"

\* the calls that returned after adding an event, in call order
IsAdded(c) == c.op # "_malaria_diagnostic" /\ c.outcome = "returned"

AddedCalls == SelectSeq(log, IsAdded)

\* the event is the one the call describes: its class, day and interventions
EventOfCall(e, c) ==
    IF c.op = "add_triggered_campaign_delay_event"
    THEN /\ e.class = "TriggeredCampaignEvent"
         /\ e.Start_Day = c.args.start_day
         /\ e.Triggers = c.args.trigger_condition_list
         /\ e.Intervention_List \in {c.args.individual_intervention,
                                     List(<<c.args.individual_intervention>>)}
    ELSE IF Given(c.args.individual_intervention)
    THEN /\ e.class = "ScheduledCampaignEvent"
         /\ e.Start_Day = c.args.start_day
         /\ e.Intervention_List \in {c.args.individual_intervention,
                                     List(<<c.args.individual_intervention>>)}
    ELSE /\ e.class = "CampaignEvent"
         /\ e.Start_Day = c.args.start_day
         /\ e.Event_Coordinator_Config.Intervention_Config \in
                {c.args.node_intervention,
                 [class |-> "MultiNodeInterventionDistributor",
                  Node_Intervention_List |-> c.args.node_intervention]}

\* C5: after any sequence of calls of the two builders the campaign holds one
\* event per call that returned, in call order; a call that returns appends one
\* event and leaves the earlier events as they were, and a call that raises
\* leaves the campaign as it was.
C5_OneEventPerSuccessfulCall ==
    /\ [](/\ Len(events) = Len(AddedCalls)
          /\ \A i \in 1..Len(events) : EventOfCall(events[i], AddedCalls[i]))
    /\ [][IF IsAdded(log'[Len(log')])
          THEN /\ Len(events') = Len(events) + 1
               /\ SubSeq(events', 1, Len(events)) = events
          ELSE events' = events]_vars

C5_Witness ==
    /\ Len(log) = 3
    /\ log[1].op = "add_campaign_event" /\ log[1].outcome = "returned"
    /\ log[2].outcome = "ValueError"
    /\ log[3].op = "add_triggered_campaign_delay_event" /\ log[3].outcome = "returned"
    /\ Len(events) = 2
    /\ events[1].class = "CampaignEvent"
    /\ events[2].class = "TriggeredCampaignEvent"

\* the last call is a call of add_campaign_event that took the individual branch
IndividualCall ==
    /\ IsCall("add_campaign_event")
    /\ Given(LastCall.args.individual_intervention)
    /\ ~Given(LastCall.args.node_intervention)

\* the last call is a call of add_campaign_event that took the node branch
NodeCall ==
    /\ IsCall("add_campaign_event")
    /\ ~Given(LastCall.args.individual_intervention)
    /\ Given(LastCall.args.node_intervention)

\* the last call is a call of add_triggered_campaign_delay_event with triggers
TriggeredCall ==
    /\ IsCall("add_triggered_campaign_delay_event")
    /\ Given(LastCall.args.trigger_condition_list)

\* C6: add_campaign_event given only individual_intervention adds a
\* ScheduledCampaignEvent whose ten scheduling and targeting fields are the
\* arguments of the same meaning; given only node_intervention it adds a
\* CampaignEvent with a StandardEventCoordinator whose Start_Day, node set,
\* Number_Repetitions and Timesteps_Between_Repetitions are the arguments.
C6_ScheduledEventFields ==
    /\ IndividualCall =>
          /\ Len(events) = 1
          /\ LastEvent.class = "ScheduledCampaignEvent"
          /\ LastEvent.Start_Day = LastCall.args.start_day
          /\ LastEvent.Node_Ids = LastCall.args.node_ids
          /\ LastEvent.Number_Repetitions = LastCall.args.repetitions
          /\ LastEvent.Timesteps_Between_Repetitions =
                 LastCall.args.timesteps_between_repetitions
          /\ LastEvent.Demographic_Coverage = LastCall.args.demographic_coverage
          /\ LastEvent.Property_Restrictions = LastCall.args.ind_property_restrictions
          /\ LastEvent.Target_Age_Min = LastCall.args.target_age_min
          /\ LastEvent.Target_Age_Max = LastCall.args.target_age_max
          /\ LastEvent.Target_Gender = LastCall.args.target_gender
          /\ LastEvent.Target_Residents_Only = LastCall.args.target_residents_only
    /\ NodeCall =>
          /\ Len(events) = 1
          /\ LastEvent.class = "CampaignEvent"
          /\ LastEvent.Event_Coordinator_Config.class = "StandardEventCoordinator"
          /\ LastEvent.Start_Day = LastCall.args.start_day
          /\ IF LastCall.args.node_ids \in {PyNone, List(<<>>)}
             THEN LastEvent.Nodeset_Config.class = "NodeSetAll"
             ELSE /\ LastEvent.Nodeset_Config.class = "NodeSetNodeList"
                  /\ LastEvent.Nodeset_Config.Node_List = LastCall.args.node_ids
          /\ LastEvent.Event_Coordinator_Config.Number_Repetitions =
                 LastCall.args.repetitions
          /\ LastEvent.Event_Coordinator_Config.Timesteps_Between_Repetitions =
                 LastCall.args.timesteps_between_repetitions

C6_Witness ==
    /\ IndividualCall
    /\ LastCall.args.target_age_min = 5
    /\ LastCall.args.target_age_max = 125
    /\ LastCall.args.start_day = 850
    /\ LastCall.args.target_residents_only
    /\ Len(events) = 1
    /\ LastEvent.class = "ScheduledCampaignEvent"
    /\ LastEvent.Target_Age_Min = 5

\* C7: add_triggered_campaign_delay_event with a non-empty trigger list adds a
\* TriggeredCampaignEvent whose Triggers, Start_Day, Duration, Delay,
\* Demographic_Coverage, Node_Ids, Number_Repetitions,
\* Timesteps_Between_Repetitions, target ages and gender,
\* Disqualifying_Properties and blackout fields are the arguments of the same
\* meaning, and whose Target_Residents_Only is 1 for a true
\* target_residents_only and 0 otherwise.
C7_TriggeredEventFields ==
    TriggeredCall =>
        /\ Len(events) = 1
        /\ LastEvent.class = "TriggeredCampaignEvent"
        /\ LastEvent.Triggers = LastCall.args.trigger_condition_list
        /\ LastEvent.Start_Day = LastCall.args.start_day
        /\ LastEvent.Duration = LastCall.args.listening_duration
        /\ LastEvent.Delay = LastCall.args.delay_period_constant
        /\ LastEvent.Demographic_Coverage = LastCall.args.demographic_coverage
        /\ LastEvent.Node_Ids = LastCall.args.node_ids
        /\ LastEvent.Number_Repetitions = LastCall.args.repetitions
        /\ LastEvent.Timesteps_Between_Repetitions =
               LastCall.args.timesteps_between_repetitions
        /\ LastEvent.Target_Age_Min = LastCall.args.target_age_min
        /\ LastEvent.Target_Age_Max = LastCall.args.target_age_max
        /\ LastEvent.Target_Gender = LastCall.args.target_gender
        /\ LastEvent.Disqualifying_Properties = LastCall.args.disqualifying_properties
        /\ LastEvent.Blackout_Period = LastCall.args.blackout_period
        /\ LastEvent.Blackout_Event_Trigger = LastCall.args.blackout_event_trigger
        /\ LastEvent.Blackout_On_First_Occurrence =
               LastCall.args.blackout_on_first_occurrence
        /\ LastCall.args.target_residents_only => LastEvent.Target_Residents_Only = 1
        /\ ~LastCall.args.target_residents_only => LastEvent.Target_Residents_Only = 0

C7_Witness ==
    /\ TriggeredCall
    /\ LastCall.args.listening_duration = 200
    /\ LastCall.args.delay_period_constant = 7
    /\ LastCall.args.target_residents_only
    /\ Len(events) = 1
    /\ LastEvent.Duration = 200
    /\ LastEvent.Delay = 7
    /\ LastEvent.Target_Residents_Only = 1

\* C8: in the individual branch of add_campaign_event and in
\* add_triggered_campaign_delay_event the Intervention_List of the event is the
\* individual_intervention argument when that is a list, with its interventions
\* in the same number and order, and a list of that one intervention otherwise.
C8_InterventionList ==
    (IndividualCall \/ TriggeredCall) =>
        /\ Len(events) = 1
        /\ LastEvent.Intervention_List.class = "list"
        /\ IF LastCall.args.individual_intervention.class = "list"
           THEN LastEvent.Intervention_List = LastCall.args.individual_intervention
           ELSE LastEvent.Intervention_List.v = <<LastCall.args.individual_intervention>>

C8_Witness ==
    /\ IndividualCall
    /\ LastCall.args.individual_intervention = List(<<IvA, IvB>>)
    /\ Len(events) = 1
    /\ LastEvent.Intervention_List.v = <<IvA, IvB>>

\* C9: add_campaign_event given a list as node_intervention sets the
\* coordinator's Intervention_Config to a MultiNodeInterventionDistributor
\* whose Node_Intervention_List is that list; given one node intervention it
\* sets Intervention_Config to that intervention.
C9_NodeInterventionConfig ==
    NodeCall =>
        /\ Len(events) = 1
        /\ IF LastCall.args.node_intervention.class = "list"
           THEN /\ LastEvent.Event_Coordinator_Config.Intervention_Config.class =
                       "MultiNodeInterventionDistributor"
                /\ LastEvent.Event_Coordinator_Config.Intervention_Config.Node_Intervention_List =
                       LastCall.args.node_intervention
           ELSE LastEvent.Event_Coordinator_Config.Intervention_Config =
                    LastCall.args.node_intervention

C9_Witness ==
    /\ NodeCall
    /\ LastCall.args.node_intervention = NodeIvA
    /\ Len(events) = 1
    /\ LastEvent.Event_Coordinator_Config.Intervention_Config = NodeIvA

\* no restriction on the nodes: None and the empty list mean the same
NoRestrictions(x) == x \in {PyNone, List(<<>>)}

\* C10: for every call of add_campaign_event that returns, individual or node
\* intervention, the coordinator of the added event carries the
\* node_property_restrictions argument as its Node_Property_Restrictions.
C10_NodePropertyRestrictions ==
    (IndividualCall \/ NodeCall) =>
        /\ Len(events) = 1
        /\ \/ LastEvent.Event_Coordinator_Config.Node_Property_Restrictions =
                  LastCall.args.node_property_restrictions
           \/ /\ NoRestrictions(LastCall.args.node_property_restrictions)
              /\ NoRestrictions(LastEvent.Event_Coordinator_Config.Node_Property_Restrictions)

\* the last call is an individual call of add_campaign_event with a number of
\* individuals to select
TargetNumCall ==
    /\ IndividualCall
    /\ LastCall.args.target_num_individuals # PyNone

\* C11: add_campaign_event with an individual intervention and
\* target_num_individuals set gives the coordinator that Target_Num_Individuals,
\* and demographic_coverage has no effect on the added event: the event is the
\* one the same call adds with any other demographic_coverage.
C11_TargetNumIndividualsIgnoresCoverage ==
    TargetNumCall =>
        /\ Len(events) = 1
        /\ LastEvent.Event_Coordinator_Config.Target_Num_Individuals =
               LastCall.args.target_num_individuals
        /\ \A d \in {ACEDefaults.demographic_coverage, ACECustom.demographic_coverage} :
               ScheduledEvent([LastCall.args EXCEPT !.demographic_coverage = d]) = LastEvent

\* C12 as stated: add_triggered_campaign_delay_event puts the converted
\* ind_property_restrictions into Property_Restrictions_Within_Node, whatever
\* they are.
C12_AlwaysWithinNode ==
    TriggeredCall =>
        /\ Len(events) = 1
        /\ LastEvent.Property_Restrictions_Within_Node =
               convert_prs(LastCall.args.ind_property_restrictions)

\* C12: add_triggered_campaign_delay_event puts the converted
\* ind_property_restrictions into Property_Restrictions_Within_Node when the
\* converted list is not empty and its first element is a dictionary, whatever
\* its other elements are; in every other case the converted list is assigned
\* to Property_Restrictions and Property_Restrictions_Within_Node stays as the
\* schema built it.
C12_WithinNodeWhenFirstIsDictionary ==
    TriggeredCall =>
        LET converted == convert_prs(LastCall.args.ind_property_restrictions)
        IN /\ Len(events) = 1
           /\ IF Len(converted.v) > 0 /\ converted.v[1].class = "dict"
              THEN /\ LastEvent.Property_Restrictions_Within_Node = converted
                   /\ LastEvent.Property_Restrictions = SchemaDefault
              ELSE /\ LastEvent.Property_Restrictions_Within_Node = SchemaDefault
                   /\ LastEvent.Property_Restrictions = converted

\* a dictionary first and a string after it: the whole list is within the node
C12_Witness ==
    /\ TriggeredCall
    /\ library = "as given"
    /\ LastCall.args.ind_property_restrictions =
           List(<<Dict("Risk", "High"), PyStr("Age:Old")>>)
    /\ Len(events) = 1
    /\ LastEvent.Property_Restrictions_Within_Node =
           List(<<Dict("Risk", "High"), PyStr("Age:Old")>>)
    /\ LastEvent.Property_Restrictions = List(<<>>)

\* C13: add_scheduled_space_spraying adds exactly one event, a node-intervention
\* event of add_campaign_event, whose intervention is a SpaceSpraying with
\* Intervention_Name, Insecticide_Name, Spray_Coverage, Cost_To_Consumer,
\* Disqualifying_Properties and New_Property_Value equal to the arguments,
\* Dont_Allow_Duplicates 1 for a true dont_allow_duplicates and 0 otherwise, and
\* Killing_Config the waning effect of killing_initial_effect,
\* killing_box_duration and killing_decay_time_constant in these roles; the
\* event's start day, nodes, repetitions, timesteps between repetitions and node
\* property restrictions are the arguments.
C13_SpaceSprayingEvent ==
    IsCall("add_scheduled_space_spraying") =>
        LET a == LastCall.args
            coordinator == LastEvent.Event_Coordinator_Config
            iv == LastEvent.Event_Coordinator_Config.Intervention_Config
        IN /\ LastCall.outcome = "returned"
           /\ Len(events) = 1
           /\ LastEvent.class = "CampaignEvent"
           /\ coordinator.class = "StandardEventCoordinator"
           /\ iv.class = "SpaceSpraying"
           /\ iv.Intervention_Name = a.intervention_name
           /\ iv.Insecticide_Name = a.insecticide
           /\ iv.Spray_Coverage = a.spray_coverage
           /\ iv.Cost_To_Consumer = a.cost_to_consumer
           /\ iv.Disqualifying_Properties = a.disqualifying_properties
           /\ iv.New_Property_Value = a.new_property_value
           /\ iv.Dont_Allow_Duplicates = (IF a.dont_allow_duplicates THEN 1 ELSE 0)
           /\ iv.Killing_Config.initial = a.killing_initial_effect
           /\ iv.Killing_Config.box_duration = a.killing_box_duration
           /\ iv.Killing_Config.decay_time_constant = a.killing_decay_time_constant
           /\ LastEvent.Start_Day = a.start_day
           /\ IF a.node_ids \in {PyNone, List(<<>>)}
              THEN LastEvent.Nodeset_Config.class = "NodeSetAll"
              ELSE /\ LastEvent.Nodeset_Config.class = "NodeSetNodeList"
                   /\ LastEvent.Nodeset_Config.Node_List = a.node_ids
           /\ coordinator.Number_Repetitions = a.repetitions
           /\ coordinator.Timesteps_Between_Repetitions = a.timesteps_between_repetitions
           /\ coordinator.Node_Property_Restrictions = a.node_property_restrictions

C13_Witness ==
    /\ IsCall("add_scheduled_space_spraying")
    /\ LastCall.args.killing_initial_effect = 9
    /\ LastCall.args.killing_box_duration = 90
    /\ LastCall.args.killing_decay_time_constant = 0
    /\ LastCall.args.dont_allow_duplicates
    /\ LastCall.args.start_day = 850
    /\ Len(events) = 1
    /\ LastEvent.Event_Coordinator_Config.Intervention_Config.class = "SpaceSpraying"
    /\ LastEvent.Event_Coordinator_Config.Intervention_Config.Killing_Config.box_duration = 90
    /\ LastEvent.Event_Coordinator_Config.Intervention_Config.Dont_Allow_Duplicates = 1

\* C14: the repelling_initial_effect, repelling_box_duration and
\* repelling_decay_time_constant of add_scheduled_spatial_repellent make the
\* repelling waning effect of the intervention, and not its killing
\* configuration.
C14_RepellingNotKilling ==
    IsCall("add_scheduled_spatial_repellent") =>
        LET a == LastCall.args
            iv == LastEvent.Event_Coordinator_Config.Intervention_Config
            waning == get_waning_from_params(a.repelling_initial_effect,
                                             a.repelling_box_duration,
                                             a.repelling_decay_time_constant)
        IN /\ Len(events) = 1
           /\ iv.class = "SpatialRepelling"
           /\ iv.Repelling_Config = waning
           /\ iv.Killing_Config # waning

\* the combinations of the values the sweep lists
SweepCombinations ==
    {[spraying_coverage |-> SweepValues.spraying_coverage[i1],
      repelling_initial_effect |-> SweepValues.repelling_initial_effect[i2],
      indoor_feeding_fraction |-> SweepValues.indoor_feeding_fraction[i3],
      run_number |-> SweepValues.run_number[i4]] :
        i1 \in 1..Len(SweepValues.spraying_coverage),
        i2 \in 1..Len(SweepValues.repelling_initial_effect),
        i3 \in 1..Len(SweepValues.indoor_feeding_fraction),
        i4 \in 1..Len(SweepValues.run_number)}

\* C15: the sweep of general_sim is the cross product of the listed values of
\* spraying_coverage, repelling_initial_effect, indoor_feeding_fraction and
\* run_number, one simulation for each combination, which makes 2x3x2 = 12
\* simulations.
C15_SweepOfTwelve ==
    IsCall("general_sim") =>
        LET simulations == experiment.simulations
        IN /\ \A c \in SweepCombinations :
                  Cardinality({k \in 1..Len(simulations) : simulations[k].tags = c}) = 1
           /\ \A k \in 1..Len(simulations) : simulations[k].tags \in SweepCombinations
           /\ Len(simulations) = 2 * 3 * 2

\* C16: build_campaign schedules its interventions in a fixed order: it calls
\* the space spraying first, then the spatial repellent, then the IRS housing
\* modification, each with start day 850 and node_ids None (all nodes); the
\* events of the space spraying and of the spatial repellent are the first and
\* the second of the campaign and are node-intervention events, whatever the
\* IRS call adds comes after them; the spatial repellent has the
\* spraying_coverage and the repelling_initial_effect of the call as they were
\* given.
C16_BuildCampaignOrder ==
    IsCall("build_campaign") =>
        LET calls == LastCall.calls
        IN /\ LastCall.outcome = "returned"
           /\ Len(calls) = 3
           /\ calls[1].fn = "spray.add_scheduled_space_spraying"
           /\ calls[2].fn = "spray.add_scheduled_spatial_repellent"
           /\ calls[3].fn = "irs.add_scheduled_irs_housing_modification"
           /\ \A k \in 1..3 : calls[k].args.start_day = 850 /\ calls[k].args.node_ids = PyNone
           /\ Len(events) >= 2
           /\ \A k \in 1..2 :
                  /\ events[k].class = "CampaignEvent"
                  /\ events[k].Start_Day = 850
                  /\ events[k].Nodeset_Config = [class |-> "NodeSetAll"]
           /\ events[1].Event_Coordinator_Config.Intervention_Config.class = "SpaceSpraying"
           /\ events[2].Event_Coordinator_Config.Intervention_Config.class = "SpatialRepelling"
           /\ \A k \in 3..Len(events) : events[k] = IrsEvent(calls[3].args)
           /\ calls[2].args.spray_coverage = LastCall.args.spraying_coverage
           /\ calls[2].args.repelling_initial_effect = LastCall.args.repelling_initial_effect
           /\ events[2].Event_Coordinator_Config.Intervention_Config.Spray_Coverage =
                  LastCall.args.spraying_coverage
           /\ events[2].Event_Coordinator_Config.Intervention_Config.Killing_Config.initial =
                  LastCall.args.repelling_initial_effect

C16_Witness ==
    /\ IsCall("build_campaign")
    /\ LastCall.args = [spraying_coverage |-> 50, repelling_initial_effect |-> 45]
    /\ Len(LastCall.calls) = 3
    /\ Len(events) = 3
    /\ events[1].Event_Coordinator_Config.Intervention_Config.Spray_Coverage = Scaled(50, 33)
    /\ events[2].Event_Coordinator_Config.Intervention_Config.Spray_Coverage = 50
    /\ events[3] = IrsEvent(BuildCampaignIrs(LastCall.args))

====
